---- MODULE Spec2Model ----
(***************************************************************************)
(* Model of the booxpert-assignment backend: the HTTP handlers of          *)
(* backend/api_handler.py, RecipeBot.generate_recipe with its validator    *)
(* (backend/services/recipe_bot.py) and NameMatcher.find_similar_names     *)
(* (backend/services/name_matching.py).                                    *)
(*                                                                         *)
(* Strings are sequences of one-character strings, so that strip, split,   *)
(* join, lower and the substring test are computed as Python computes      *)
(* them.  Python's None is the empty tuple and a present value x is <<x>>. *)
(* Scores are fixed-point integers: a cosine similarity in units of 1e-4, *)
(* a fuzz.ratio in units of 1e-2, a reported (rounded) score in units of   *)
(* 1e-3.                                                                   *)
(***************************************************************************)
EXTENDS Integers, Sequences, FiniteSets, TLC

VARIABLES names, pc, rb, nm, http, bot, disk

vars == <<names, pc, rb, nm, http, bot, disk>>

None == << >>
Some(x) == <<x>>

(***************************************************************************)
(* Bounds of the model.                                                    *)
(***************************************************************************)
MaxFrags == 2
MaxCatalog == 3
MaxTopK == 3

(***************************************************************************)
(* Python string primitives.                                               *)
(***************************************************************************)
IsSpace(c) == c \in {" ", "\n", "\t"}

RECURSIVE LStrip(_)
LStrip(s) ==
  IF Len(s) = 0 THEN s
  ELSE IF IsSpace(Head(s)) THEN LStrip(Tail(s)) ELSE s

RECURSIVE RStrip(_)
RStrip(s) ==
  IF Len(s) = 0 THEN s
  ELSE IF IsSpace(s[Len(s)]) THEN RStrip(SubSeq(s, 1, Len(s) - 1)) ELSE s

Strip(s) == RStrip(LStrip(s))

\* sub occurs in s at position i.
MatchAt(s, sub, i) == \A j \in 1..Len(sub) : s[i + j - 1] = sub[j]

\* str.find shifted by one: the first position of sub in s, 0 when absent.
Find(s, sub) ==
  IF \E i \in 1..(Len(s) - Len(sub) + 1) : MatchAt(s, sub, i)
  THEN CHOOSE i \in 1..(Len(s) - Len(sub) + 1) :
         MatchAt(s, sub, i) /\ \A k \in 1..(i - 1) : ~MatchAt(s, sub, k)
  ELSE 0

\* Python's `sub in s`.
Contains(sub, s) == Find(s, sub) # 0

UpperLetters ==
  <<"A", "B", "C", "D", "E", "F", "G", "H", "I", "J", "K", "L", "M",
    "N", "O", "P", "Q", "R", "S", "T", "U", "V", "W", "X", "Y", "Z">>

LowerLetters ==
  <<"a", "b", "c", "d", "e", "f", "g", "h", "i", "j", "k", "l", "m",
    "n", "o", "p", "q", "r", "s", "t", "u", "v", "w", "x", "y", "z">>

LowerChar(c) ==
  IF \E i \in 1..26 : UpperLetters[i] = c
  THEN LowerLetters[CHOOSE i \in 1..26 : UpperLetters[i] = c]
  ELSE c

Lower(s) == [i \in 1..Len(s) |-> LowerChar(s[i])]

\* s.split(sep) for a non-empty separator: empty pieces are kept.
RECURSIVE Split(_, _)
Split(s, sep) ==
  LET i == Find(s, sep)
  IN IF i = 0 THEN <<s>>
     ELSE <<SubSeq(s, 1, i - 1)>> \o Split(SubSeq(s, i + Len(sep), Len(s)), sep)

\* s.split(sep, 1)
Split1(s, sep) ==
  LET i == Find(s, sep)
  IN IF i = 0 THEN <<s>>
     ELSE <<SubSeq(s, 1, i - 1), SubSeq(s, i + Len(sep), Len(s))>>

RECURSIVE Join(_, _)
Join(sep, parts) ==
  IF Len(parts) = 0 THEN << >>
  ELSE IF Len(parts) = 1 THEN parts[1]
  ELSE parts[1] \o sep \o Join(sep, Tail(parts))

Repeat(c, n) == [i \in 1..n |-> c]

(***************************************************************************)
(* RecipeBot._is_valid_recipe                                              *)
(***************************************************************************)
MinRecipeLen == 100
MinCookingWords == 2

cooking_words ==
  << <<"c", "o", "o", "k">>, <<"h", "e", "a", "t">>, <<"a", "d", "d">>,
     <<"m", "i", "x">>, <<"s", "t", "i", "r">>, <<"s", "e", "r", "v", "e">>,
     <<"b", "a", "k", "e">>, <<"f", "r", "y">>, <<"b", "o", "i", "l">> >>

KwIngredient == <<"i", "n", "g", "r", "e", "d", "i", "e", "n", "t">>
KwIngredientsColon == <<"i", "n", "g", "r", "e", "d", "i", "e", "n", "t", "s", ":">>
KwInstruction == <<"i", "n", "s", "t", "r", "u", "c", "t", "i", "o", "n">>
KwInstructionsColon == <<"i", "n", "s", "t", "r", "u", "c", "t", "i", "o", "n", "s", ":">>

\* sum(1 for word in cooking_words if word in text_lower)
RECURSIVE CountWords(_, _)
CountWords(words, text_lower) ==
  IF Len(words) = 0 THEN 0
  ELSE (IF Contains(Head(words), text_lower) THEN 1 ELSE 0)
       + CountWords(Tail(words), text_lower)

IsValidRecipe_OneWord(text) ==
  IF Len(text) < MinRecipeLen THEN FALSE
  ELSE LET text_lower == Lower(text)
           has_ingredients == Contains(KwIngredientsColon, text_lower)
                              \/ Contains(KwIngredient, text_lower)
           has_instructions == Contains(KwInstructionsColon, text_lower)
                               \/ Contains(KwInstruction, text_lower)
           has_cooking_actions == CountWords(cooking_words, text_lower) >= 1
       IN (has_ingredients \/ has_instructions) /\ has_cooking_actions

IsValidRecipe(text) ==
  IF Len(text) < MinRecipeLen THEN FALSE
  ELSE LET text_lower == Lower(text)
           has_ingredients == Contains(KwIngredientsColon, text_lower)
                              \/ Contains(KwIngredient, text_lower)
           has_instructions == Contains(KwInstructionsColon, text_lower)
                               \/ Contains(KwInstruction, text_lower)
           has_cooking_actions ==
             CountWords(cooking_words, text_lower) >= MinCookingWords
       IN (has_ingredients \/ has_instructions) /\ has_cooking_actions

(***************************************************************************)
(* RecipeBot.generate_recipe                                               *)
(***************************************************************************)
Comma == <<",">>
CommaSpace == <<",", " ">>
INST_CLOSE == <<"[", "/", "I", "N", "S", "T", "]">>

NonEmpty(s) == Len(s) > 0

Canonical_DropsEmpty(ingredients) ==
  LET parts == Split(ingredients, Comma)
      ingredient_list == [i \in 1..Len(parts) |-> Strip(parts[i])]
  IN Join(CommaSpace, SelectSeq(ingredient_list, NonEmpty))

\* ingredient_list / ingredients_text
Canonical(ingredients) ==
  LET parts == Split(ingredients, Comma)
      ingredient_list == [i \in 1..Len(parts) |-> Strip(parts[i])]
  IN Join(CommaSpace, ingredient_list)

ParseResponse_LastPiece(full_response) ==
  LET pieces == Split(full_response, INST_CLOSE)
  IN Strip(pieces[Len(pieces)])

\* recipe_text from full_response
ParseResponse(full_response) ==
  IF Contains(INST_CLOSE, full_response)
  THEN Strip(Split1(full_response, INST_CLOSE)[2])
  ELSE Strip(full_response)

NoOutcome == [success |-> FALSE, ingredients |-> << >>, recipe |-> None, error |-> None]

CannedRecipe == <<"B", "o", "i", "l", " ", "t", "h", "e", " ", "e", "g", "g", ".">>

\* self.get_recipe_by_keywords(arg).  RecipeBot defines no such method: with
\* the class as it stands the attribute lookup raises AttributeError
\* (behaviour "raise").  Behaviour "return" is the Fallback Recipe Source of the
\* design: a canned recipe as a successful outcome.
GetRecipeByKeywords(arg, behaviour) ==
  IF behaviour = "return"
  THEN [kind |-> "return", exc |-> "",
        outcome |-> [success |-> TRUE, ingredients |-> arg,
                     recipe |-> Some(CannedRecipe), error |-> None]]
  ELSE [kind |-> "raise",
        exc |-> "'RecipeBot' object has no attribute 'get_recipe_by_keywords'",
        outcome |-> NoOutcome]

AcceptedOutcome_WithError(ingredients_text, recipe_text) ==
  [success |-> TRUE, ingredients |-> ingredients_text,
   recipe |-> Some(recipe_text), error |-> Some("ok")]

AcceptedOutcome(ingredients_text, recipe_text) ==
  [success |-> TRUE, ingredients |-> ingredients_text,
   recipe |-> Some(recipe_text), error |-> None]

InvalidOutcome(ingredients_text) ==
  [success |-> FALSE, ingredients |-> ingredients_text,
   recipe |-> None, error |-> Some("Generated invalid recipe")]

ErrorOutcome(ingredients, e) ==
  [success |-> FALSE, ingredients |-> ingredients,
   recipe |-> None, error |-> Some(e)]

\* The branch taken when the validator rejects the text.  kind "except" is an
\* exception raised inside the try block, which the handler below catches.
OnRejected_AlwaysFallback(ingredients, ingredients_text, use_fallback, fb) ==
  LET r == GetRecipeByKeywords(ingredients, fb)
  IN [kind |-> IF r.kind = "raise" THEN "except" ELSE "return",
      exc |-> r.exc, outcome |-> r.outcome, selfBuilt |-> FALSE,
      source |-> IF r.kind = "raise" THEN "NONE" ELSE "FALLBACK",
      fallbackArgs |-> <<ingredients>>]

OnRejected(ingredients, ingredients_text, use_fallback, fb) ==
  IF use_fallback
  THEN LET r == GetRecipeByKeywords(ingredients, fb)
       IN [kind |-> IF r.kind = "raise" THEN "except" ELSE "return",
           exc |-> r.exc, outcome |-> r.outcome, selfBuilt |-> FALSE,
           source |-> IF r.kind = "raise" THEN "NONE" ELSE "FALLBACK",
           fallbackArgs |-> <<ingredients>>]
  ELSE [kind |-> "return", exc |-> "",
        outcome |-> InvalidOutcome(ingredients_text), selfBuilt |-> TRUE,
        source |-> "NONE", fallbackArgs |-> << >>]

\* except Exception as e
OnException(ingredients, use_fallback, e, fb) ==
  IF use_fallback
  THEN LET r == GetRecipeByKeywords(ingredients, fb)
       IN [kind |-> r.kind, exc |-> r.exc, outcome |-> r.outcome,
           selfBuilt |-> FALSE,
           source |-> IF r.kind = "raise" THEN "NONE" ELSE "FALLBACK",
           fallbackArgs |-> <<ingredients>>]
  ELSE [kind |-> "return", exc |-> "",
        outcome |-> ErrorOutcome(ingredients, e), selfBuilt |-> TRUE,
        source |-> "NONE", fallbackArgs |-> << >>]

TryBlock_NoValidation(ingredients, use_fallback, gen, fb) ==
  LET ingredients_text == Canonical(ingredients)
  IN IF gen.raises
     THEN [kind |-> "except", exc |-> gen.msg, outcome |-> NoOutcome,
           selfBuilt |-> FALSE, source |-> "NONE", fallbackArgs |-> << >>,
           recipe_text |-> None, validatorRan |-> FALSE, valid |-> FALSE]
     ELSE LET recipe_text == ParseResponse(gen.text)
          IN [kind |-> "return", exc |-> "",
              outcome |-> AcceptedOutcome(ingredients_text, recipe_text),
              selfBuilt |-> TRUE, source |-> "GENERATED",
              fallbackArgs |-> << >>,
              recipe_text |-> Some(recipe_text), validatorRan |-> TRUE,
              valid |-> IsValidRecipe(recipe_text)]

\* The try block.  gen is what tokenizer(...), model.generate(...) and
\* tokenizer.decode(...) do: raise gen.msg, or produce gen.text.
TryBlock(ingredients, use_fallback, gen, fb) ==
  LET ingredients_text == Canonical(ingredients)
  IN IF gen.raises
     THEN [kind |-> "except", exc |-> gen.msg, outcome |-> NoOutcome,
           selfBuilt |-> FALSE, source |-> "NONE", fallbackArgs |-> << >>,
           recipe_text |-> None, validatorRan |-> FALSE, valid |-> FALSE]
     ELSE LET recipe_text == ParseResponse(gen.text)
              ok == IsValidRecipe(recipe_text)
              br == IF ~ok
                    THEN OnRejected(ingredients, ingredients_text, use_fallback, fb)
                    ELSE [kind |-> "return", exc |-> "",
                          outcome |-> AcceptedOutcome(ingredients_text, recipe_text),
                          selfBuilt |-> TRUE, source |-> "GENERATED",
                          fallbackArgs |-> << >>]
          IN [kind |-> br.kind, exc |-> br.exc, outcome |-> br.outcome,
              selfBuilt |-> br.selfBuilt, source |-> br.source,
              fallbackArgs |-> br.fallbackArgs,
              recipe_text |-> Some(recipe_text), validatorRan |-> TRUE,
              valid |-> ok]

\* generate_recipe(ingredients, use_fallback): fb[1] and fb[2] are what the
\* first and the second call of get_recipe_by_keywords do.
GenerateRecipe(ingredients, use_fallback, gen, fb) ==
  LET t == TryBlock(ingredients, use_fallback, gen, fb[1])
      h == OnException(ingredients, use_fallback, t.exc,
                       IF t.fallbackArgs = << >> THEN fb[1] ELSE fb[2])
  IN IF t.kind = "except"
     THEN [called |-> TRUE, ingredients |-> ingredients,
           use_fallback |-> use_fallback, genRaised |-> gen.raises,
           genMsg |-> gen.msg, kind |-> h.kind, exc |-> h.exc,
           outcome |-> h.outcome, selfBuilt |-> h.selfBuilt,
           source |-> h.source,
           fallbackArgs |-> t.fallbackArgs \o h.fallbackArgs,
           recipe_text |-> t.recipe_text, validatorRan |-> t.validatorRan,
           valid |-> t.valid, genCalls |-> 1,
           ingredients_text |-> Canonical(ingredients),
           full_response |-> gen.text]
     ELSE [called |-> TRUE, ingredients |-> ingredients,
           use_fallback |-> use_fallback, genRaised |-> gen.raises,
           genMsg |-> gen.msg, kind |-> t.kind, exc |-> t.exc,
           outcome |-> t.outcome, selfBuilt |-> t.selfBuilt,
           source |-> t.source, fallbackArgs |-> t.fallbackArgs,
           recipe_text |-> t.recipe_text, validatorRan |-> t.validatorRan,
           valid |-> t.valid, genCalls |-> 1,
           ingredients_text |-> Canonical(ingredients),
           full_response |-> gen.text]

RbIdle ==
  [called |-> FALSE, ingredients |-> << >>, use_fallback |-> TRUE,
   genRaised |-> FALSE, genMsg |-> "", kind |-> "none", exc |-> "",
   outcome |-> NoOutcome, selfBuilt |-> FALSE, source |-> "NONE",
   fallbackArgs |-> << >>, recipe_text |-> None, validatorRan |-> FALSE,
   valid |-> FALSE, genCalls |-> 0, ingredients_text |-> << >>,
   full_response |-> << >>]

(***************************************************************************)
(* NameMatcher.find_similar_names                                          *)
(***************************************************************************)
SemWeight == 6
FuzzyWeight == 4
DefaultTopK == 5

\* The head of _get_default_names().
DefaultNames == <<"Geetha", "Geeta", "Gita", "Gitu", "Gitanjali", "Priya">>

\* round(x / d) as Python's round(): to nearest, a tie to the even neighbour.
RoundDiv(x, d) ==
  LET q == x \div d
      r == x % d
  IN IF 2 * r < d THEN q
     ELSE IF 2 * r > d THEN q + 1
     ELSE IF q % 2 = 0 THEN q ELSE q + 1

\* (0.6 * semantic_scores) + (0.4 * fuzzy_scores), in units of 1e-5, from a
\* cosine in units of 1e-4 and a fuzz.ratio in 0..100.
Combined_EqualWeights(s, f) == 5 * s + 5 * (100 * f)

Combined(s, f) == SemWeight * s + FuzzyWeight * (100 * f)

\* The match dictionary of one candidate; reported scores in units of 1e-3.
Match(name, s, f) ==
  [name |-> name, score |-> RoundDiv(Combined(s, f), 100),
   semantic_score |-> RoundDiv(s, 10), fuzzy_score |-> 10 * f]

Perms(n) == {p \in [1..n -> 1..n] : \A i, j \in 1..n : i # j => p[i] # p[j]}

\* np.argsort(combined_scores): an index order that sorts ascending.  The
\* default kind is not stable, so equal scores may come in either order.
ArgSort(c) ==
  {p \in Perms(Len(c)) : \A i \in 1..(Len(c) - 1) : c[p[i]] <= c[p[i + 1]]}

Reversed_Identity(a) == a

\* a[::-1]
Reversed(a) == [i \in 1..Len(a) |-> a[Len(a) + 1 - i]]

SliceTo_Tail(a, k) ==
  IF k >= 0
  THEN SubSeq(a, Len(a) + 1 - (IF k < Len(a) THEN k ELSE Len(a)), Len(a))
  ELSE SubSeq(a, 1, IF Len(a) + k > 0 THEN Len(a) + k ELSE 0)

\* a[:k] for any integer k
SliceTo(a, k) ==
  IF k >= 0
  THEN SubSeq(a, 1, IF k < Len(a) THEN k ELSE Len(a))
  ELSE SubSeq(a, 1, IF Len(a) + k > 0 THEN Len(a) + k ELSE 0)

NoMatch == [name |-> "", score |-> 0]

\* best_match from all_matches[0]
BestMatch(all_matches) ==
  [name |-> all_matches[1].name, score |-> all_matches[1].score]

\* find_similar_names(input_name, top_k) over the catalog cat, given the
\* cosine similarities sem, the fuzz ratios fz and the order asc that
\* np.argsort returned.
FindSimilarNames(cat, input_name, top_k, sem, fz, asc) ==
  LET combined_scores == [i \in 1..Len(cat) |-> Combined(sem[i], fz[i])]
      sorted_indices == Reversed(asc)
      top == SliceTo(sorted_indices, top_k)
      all_matches == [j \in 1..Len(top) |->
                        Match(cat[top[j]], sem[top[j]], fz[top[j]])]
  IN IF Len(all_matches) = 0
     THEN [called |-> TRUE, input |-> input_name, top_k |-> top_k,
           sem |-> sem, fz |-> fz, combined |-> combined_scores,
           kind |-> "raise", exc |-> "list index out of range",
           all_matches |-> all_matches, best_match |-> NoMatch]
     ELSE [called |-> TRUE, input |-> input_name, top_k |-> top_k,
           sem |-> sem, fz |-> fz, combined |-> combined_scores,
           kind |-> "return", exc |-> "",
           all_matches |-> all_matches, best_match |-> BestMatch(all_matches)]

\* self.model.encode(input_name) raising: nothing is caught.
EmbeddingFailure(input_name, top_k) ==
  [called |-> TRUE, input |-> input_name, top_k |-> top_k,
   sem |-> << >>, fz |-> << >>, combined |-> << >>,
   kind |-> "raise", exc |-> "encode failed",
   all_matches |-> << >>, best_match |-> NoMatch]

NmIdle ==
  [called |-> FALSE, input |-> << >>, top_k |-> 0,
   sem |-> << >>, fz |-> << >>, combined |-> << >>,
   kind |-> "none", exc |-> "", all_matches |-> << >>, best_match |-> NoMatch]

(***************************************************************************)
(* backend/api_handler.py                                                  *)
(***************************************************************************)
HTTP_OK == 200
HTTP_BAD_REQUEST == 400
HTTP_SERVER_ERROR == 500

GeneratedBy == "recipe-bot-lora"

\* not s or not s.strip()
IsBlank(s) == Len(s) = 0 \/ Len(Strip(s)) = 0

\* except Exception as e: raise HTTPException(status_code=500, ...).  It
\* catches every exception raised in the try block, the handler's own
\* HTTPException included (HTTPException is a subclass of Exception).
ExceptClause(raised) == HTTP_SERVER_ERROR

HttpIdle ==
  [endpoint |-> "none", input |-> << >>, status |-> 0, raised |-> 0,
   coreCalled |-> FALSE, recipe |-> None, generated_by |-> "",
   best_match |-> NoMatch, all_matches |-> << >>]

\* match_names on a blank name
MatchNamesBlank(name) ==
  [endpoint |-> "match-names", input |-> name,
   status |-> ExceptClause(HTTP_BAD_REQUEST), raised |-> HTTP_BAD_REQUEST,
   coreCalled |-> FALSE, recipe |-> None, generated_by |-> "",
   best_match |-> NoMatch, all_matches |-> << >>]

\* match_names once find_similar_names(name.strip()) has ended as core
MatchNamesResponse(name, core) ==
  IF core.kind = "raise"
  THEN [endpoint |-> "match-names", input |-> name,
        status |-> ExceptClause(0), raised |-> 0,
        coreCalled |-> TRUE, recipe |-> None, generated_by |-> "",
        best_match |-> NoMatch, all_matches |-> << >>]
  ELSE [endpoint |-> "match-names", input |-> name,
        status |-> HTTP_OK, raised |-> 0,
        coreCalled |-> TRUE, recipe |-> None, generated_by |-> "",
        best_match |-> [name |-> core.best_match.name,
                        score |-> core.best_match.score],
        all_matches |-> [i \in 1..Len(core.all_matches) |->
                           [name |-> core.all_matches[i].name,
                            score |-> core.all_matches[i].score]]]

\* get_recipe on a blank ingredient string
GetRecipeBlank(ingredients) ==
  [endpoint |-> "get-recipe", input |-> ingredients,
   status |-> ExceptClause(HTTP_BAD_REQUEST), raised |-> HTTP_BAD_REQUEST,
   coreCalled |-> FALSE, recipe |-> None, generated_by |-> "",
   best_match |-> NoMatch, all_matches |-> << >>]

\* get_recipe once generate_recipe(ingredients.strip()) has ended as core
GetRecipeResponse(ingredients, core) ==
  IF core.kind = "raise"
  THEN [endpoint |-> "get-recipe", input |-> ingredients,
        status |-> ExceptClause(0), raised |-> 0,
        coreCalled |-> TRUE, recipe |-> None, generated_by |-> "",
        best_match |-> NoMatch, all_matches |-> << >>]
  ELSE IF ~core.outcome.success
  THEN [endpoint |-> "get-recipe", input |-> ingredients,
        status |-> ExceptClause(HTTP_SERVER_ERROR), raised |-> HTTP_SERVER_ERROR,
        coreCalled |-> TRUE, recipe |-> None, generated_by |-> "",
        best_match |-> NoMatch, all_matches |-> << >>]
  ELSE [endpoint |-> "get-recipe", input |-> ingredients,
        status |-> HTTP_OK, raised |-> 0,
        coreCalled |-> TRUE, recipe |-> core.outcome.recipe,
        generated_by |-> GeneratedBy,
        best_match |-> NoMatch, all_matches |-> << >>]

(***************************************************************************)
(* Inputs.                                                                 *)
(***************************************************************************)
IngredientInputs ==
  { <<"e", "g", "g", ",", " ", "o", "n", "i", "o", "n", "s">>,
    <<" ", "e", "g", "g", " ", ",", "o", "n", "i", "o", "n", "s", " ">>,
    <<"e", "g", "g", ",", ",", "o", "n", "i", "o", "n">>,
    <<"e", "g", "g">>,
    << >>,
    <<" ", " ">> }

NameInputs ==
  { <<"G", "i", "t", "a">>, <<" ", "G", "i", "t", "a", " ">>,
    << >>, <<" ">>, <<"\t", " ">> }

\* "Ingredient ", "instructions: heat, stir ", "mix ", "Stir-FRY "
Fragments ==
  { <<"I", "n", "g", "r", "e", "d", "i", "e", "n", "t", " ">>,
    <<"i", "n", "s", "t", "r", "u", "c", "t", "i", "o", "n", "s", ":", " ", "h", "e", "a", "t", ",", " ", "s", "t", "i", "r", " ">>,
    <<"m", "i", "x", " ">>,
    <<"S", "t", "i", "r", "-", "F", "R", "Y", " ">> }

\* Texts of at most k fragments.
RECURSIVE Bodies(_)
Bodies(k) ==
  IF k = 0 THEN {<< >>}
  ELSE Bodies(k - 1) \cup {b \o f : b \in Bodies(k - 1), f \in Fragments}

TextLens == {50, 99, 100}

\* body filled with "." up to n characters.
Pad(body, n) == body \o Repeat(".", n - Len(body))

Echo == <<"[", "I", "N", "S", "T", "]", " ", "q", " ", "[", "/", "I", "N", "S", "T", "]", " ">>

\* A decoded text in which the delimiter occurs twice: "[INST] q [/INST] a [/INST] ".
Echo2 == Echo \o <<"a", " ">> \o INST_CLOSE \o <<" ">>

FullResponses ==
  {prefix \o Pad(b, n) : prefix \in {<< >>, Echo}, b \in Bodies(MaxFrags), n \in TextLens}
  \cup {Echo2 \o Pad(b, MinRecipeLen) : b \in Bodies(1)}
  \cup {Echo}

\* A few decoded texts of exactly the minimal length after the prompt echo.
FewResponses == {Echo \o Pad(b, MinRecipeLen) : b \in Bodies(1)}

GenErrors == {"", "CUDA out of memory", "index out of range in self"}

\* What tokenizer(...), model.generate(...) and tokenizer.decode(...) may do.
GenOutcomes ==
  {[raises |-> TRUE, msg |-> m, text |-> << >>] : m \in GenErrors}
  \cup {[raises |-> FALSE, msg |-> "", text |-> t] : t \in FullResponses}

GenFew ==
  {[raises |-> TRUE, msg |-> m, text |-> << >>] : m \in GenErrors}
  \cup {[raises |-> FALSE, msg |-> "", text |-> t] : t \in FewResponses}

\* " egg ,onions "
Messy == <<" ", "e", "g", "g", " ", ",", "o", "n", "i", "o", "n", "s", " ">>

\* What the first and the second call of get_recipe_by_keywords may do (a
\* second call only follows a first one that raised).
FallbackBehaviours ==
  {<<"return", "return">>, <<"raise", "return">>, <<"raise", "raise">>}

\* The generate_recipe calls explored: every ingredient input with a few
\* generation outcomes, and one ingredient input with every generation outcome.
GenerateRecipeCalls ==
  {GenerateRecipe(c[1], c[2], c[3], c[4]) :
     c \in (IngredientInputs \X BOOLEAN \X GenFew \X FallbackBehaviours)
           \cup ({Messy} \X BOOLEAN \X GenOutcomes \X FallbackBehaviours)}

\* The generate_recipe calls of get_recipe explored, likewise.
GetRecipeCalls ==
  {<<c[1], GenerateRecipe(Strip(c[1]), TRUE, c[2], c[3])>> :
     c \in ({i \in IngredientInputs : ~IsBlank(i)} \X GenFew \X FallbackBehaviours)
           \cup ({Messy} \X GenOutcomes \X FallbackBehaviours)}

\* Cosine similarities (1e-4) and fuzz ratios (0..100) of the candidates.  A
\* catalog of one name is scored over a dense window, larger ones over a
\* few values that allow ties.
SemInputs(n) ==
  IF n = 1 THEN (4975..5025) \cup {-10000, -1, 10000}
  ELSE {-5000, 4995, 10000}

FuzzyInputs(n) ==
  IF n = 1 THEN {0, 67, 100} ELSE {0, 100}

TopKInputs == (0 - MaxTopK)..MaxTopK

Query == <<"G", "i", "t", "a">>

(***************************************************************************)
(* Construction: RecipeBot.load_model and NameMatcher._load_names.          *)
(***************************************************************************)
\* Where the adapter attempt raises: AutoTokenizer.from_pretrained, the base
\* AutoModelForCausalLM.from_pretrained, PeftModel.from_pretrained,
\* model.eval()/config.use_cache; or nowhere.
AdapterOutcomes == {"ok", "tokenizer", "base_model", "adapter", "eval"}

\* Where _load_base_model raises, or nowhere.
BaseOutcomes == {"ok", "tokenizer", "model"}

\* self.model = None, self.tokenizer = None
NoBot ==
  [state |-> "none", model |-> "none", tokenizer |-> "none",
   adapterAttempts |-> 0, baseLoads |-> 0]

LoadBaseModel_Skipped(self, b) == [self EXCEPT !.state = "ready"]

\* _load_base_model; state "failed" is the exception leaving the constructor.
LoadBaseModel(self, b) ==
  LET counted == [self EXCEPT !.baseLoads = @ + 1]
  IN IF b = "tokenizer"
     THEN [counted EXCEPT !.state = "failed"]
     ELSE IF b = "model"
          THEN [counted EXCEPT !.state = "failed", !.tokenizer = "base"]
          ELSE [counted EXCEPT !.state = "ready", !.tokenizer = "base",
                               !.model = "base"]

\* load_model, called once by __init__.
LoadModel(a, b) ==
  LET attempted == [NoBot EXCEPT !.adapterAttempts = 1]
      tried ==
        [attempted EXCEPT
           !.tokenizer = IF a = "tokenizer" THEN "none" ELSE "adapter",
           !.model = IF a \in {"ok", "eval"} THEN "lora" ELSE "none"]
  IN IF a = "ok"
     THEN [tried EXCEPT !.state = "ready"]
     ELSE LoadBaseModel(tried, b)

\* A RecipeBot whose adapter loaded.
LoadedBot == LoadModel("ok", "ok")

\* json.dump({"names": ...}) / json.load(f)["names"]
Dump(name_list) == [names |-> name_list]
Load(doc) == doc.names

LoadNames_Rewrites(d) ==
  [d EXCEPT !.doc = Some(Dump(DefaultNames)),
            !.returned = Append(@, DefaultNames),
            !.writes = @ + 1]

\* _load_names: d.doc is data/names.json (None when the file is absent),
\* d.returned the lists returned so far, d.writes the number of writes.
LoadNames(d) ==
  IF d.doc = None
  THEN [d EXCEPT !.doc = Some(Dump(DefaultNames)),
                 !.returned = Append(@, DefaultNames),
                 !.writes = @ + 1]
  ELSE [d EXCEPT !.returned = Append(@, Load(d.doc[1]))]

\* The names document after a NameMatcher loaded name_list from it.
LoadedDisk(name_list) ==
  [doc |-> Some(Dump(name_list)), returned |-> <<name_list>>, writes |-> 0]

(***************************************************************************)
(* The state machine.                                                      *)
(***************************************************************************)
Init ==
  /\ names \in {SubSeq(DefaultNames, 1, k) : k \in 0..MaxCatalog}
  /\ pc = "idle"
  /\ rb = RbIdle
  /\ nm = NmIdle
  /\ http = HttpIdle
  /\ bot = LoadedBot
  /\ disk = LoadedDisk(names)

\* A direct call of RecipeBot.generate_recipe.
CallGenerateRecipe ==
  /\ pc = "idle"
  /\ rb' \in GenerateRecipeCalls
  /\ pc' = "done"
  /\ UNCHANGED <<names, nm, http, bot, disk>>

\* POST /api/get-recipe
ApiGetRecipe ==
  /\ pc = "idle"
  /\ \/ \E ingredients \in {i \in IngredientInputs : IsBlank(i)} :
            /\ rb' = RbIdle
            /\ http' = GetRecipeBlank(ingredients)
     \/ \E c \in GetRecipeCalls :
            /\ rb' = c[2]
            /\ http' = GetRecipeResponse(c[1], c[2])
  /\ pc' = "done"
  /\ UNCHANGED <<names, nm, bot, disk>>

\* A direct call of NameMatcher.find_similar_names.
CallFindSimilarNames ==
  /\ pc = "idle"
  /\ \E top_k \in TopKInputs \cup {DefaultTopK} :
       \/ nm' = EmbeddingFailure(Query, top_k)
       \/ \E sem \in [1..Len(names) -> SemInputs(Len(names))],
             fz \in [1..Len(names) -> FuzzyInputs(Len(names))] :
            \E asc \in ArgSort([i \in 1..Len(names) |-> Combined(sem[i], fz[i])]) :
              nm' = FindSimilarNames(names, Query, top_k, sem, fz, asc)
  /\ pc' = "done"
  /\ UNCHANGED <<names, rb, http, bot, disk>>

\* POST /api/match-names
ApiMatchNames ==
  /\ pc = "idle"
  /\ \E name \in NameInputs :
       IF IsBlank(name)
       THEN /\ nm' = NmIdle
            /\ http' = MatchNamesBlank(name)
       ELSE \/ /\ nm' = EmbeddingFailure(Strip(name), DefaultTopK)
               /\ http' = MatchNamesResponse(name, nm')
            \/ \E sem \in [1..Len(names) -> SemInputs(Len(names))],
                  fz \in [1..Len(names) -> FuzzyInputs(Len(names))] :
                 \E asc \in ArgSort([i \in 1..Len(names) |-> Combined(sem[i], fz[i])]) :
                   /\ nm' = FindSimilarNames(names, Strip(name), DefaultTopK, sem, fz, asc)
                   /\ http' = MatchNamesResponse(name, nm')
  /\ pc' = "done"
  /\ UNCHANGED <<names, rb, bot, disk>>

\* The caller takes the result; the services keep no per-request state.
Respond ==
  /\ pc = "done"
  /\ pc' = "idle"
  /\ rb' = RbIdle
  /\ nm' = NmIdle
  /\ http' = HttpIdle
  /\ UNCHANGED <<names, bot, disk>>

Next ==
  \/ CallGenerateRecipe
  \/ ApiGetRecipe
  \/ CallFindSimilarNames
  \/ ApiMatchNames
  \/ Respond

Spec == Init /\ [][Next]_vars

(***************************************************************************)
(* The process lifecycle: module-level NameMatcher() and RecipeBot(), then  *)
(* requests, over restarts that share data/names.json.                      *)
(***************************************************************************)
MaxLoads == 3

\* Lists a names.json may already hold when the process first starts.
StoredLists == {<< >>, <<"Priya", "Geetha">>, SubSeq(DefaultNames, 1, 2)}

LifecycleCalls ==
  {GenerateRecipe(c[1], c[2], c[3], c[4]) :
     c \in {Messy} \X BOOLEAN \X GenFew \X FallbackBehaviours}

InitLifecycle ==
  /\ names = << >>
  /\ pc = "down"
  /\ rb = RbIdle
  /\ nm = NmIdle
  /\ http = HttpIdle
  /\ bot = NoBot
  /\ disk \in {[doc |-> d, returned |-> << >>, writes |-> 0] :
                 d \in {None} \cup {Some(Dump(l)) : l \in StoredLists}}

\* A process starts with name_matcher = NameMatcher(): _load_names, then the
\* embedding model, whose failure leaves the process without a NameMatcher.
ConstructNameMatcher ==
  /\ pc = "down"
  /\ Len(disk.returned) < MaxLoads
  /\ disk' = LoadNames(disk)
  /\ \/ /\ names' = disk'.returned[Len(disk'.returned)]
        /\ pc' = "booting"
     \/ /\ names' = << >>
        /\ pc' = "down"
  /\ bot' = NoBot
  /\ UNCHANGED <<rb, nm, http>>

\* recipe_bot = RecipeBot()
ConstructRecipeBot ==
  /\ pc = "booting"
  /\ \E a \in AdapterOutcomes, b \in BaseOutcomes :
       bot' = LoadModel(a, b)
  /\ pc' = IF bot'.state = "ready" THEN "idle" ELSE "down"
  /\ names' = IF bot'.state = "ready" THEN names ELSE << >>
  /\ UNCHANGED <<rb, nm, http, disk>>

\* RecipeBot.generate_recipe on the constructed bot.
LifecycleGenerateRecipe ==
  /\ pc = "idle"
  /\ bot.state = "ready"
  /\ rb' \in LifecycleCalls
  /\ pc' = "done"
  /\ UNCHANGED <<names, nm, http, bot, disk>>

\* The process ends; only the file survives.
Exit ==
  /\ pc = "idle"
  /\ pc' = "down"
  /\ names' = << >>
  /\ bot' = NoBot
  /\ UNCHANGED <<rb, nm, http, disk>>

NextLifecycle ==
  \/ ConstructNameMatcher
  \/ ConstructRecipeBot
  \/ LifecycleGenerateRecipe
  \/ Respond
  \/ Exit

SpecLifecycle == InitLifecycle /\ [][NextLifecycle]_vars

(***************************************************************************)
(* Properties.                                                             *)
(***************************************************************************)
Min(a, b) == IF a < b THEN a ELSE b

Abs(x) == IF x < 0 THEN 0 - x ELSE x

\* C1: when the generation step raises inside generate_recipe and
\* use_fallback is true, the call returns a successful outcome taken from the
\* Fallback Recipe Source; it neither raises nor returns a failure.
C1_FallbackOnGenerationError ==
  (rb.called /\ rb.genRaised /\ rb.use_fallback)
    => (rb.kind = "return" /\ rb.outcome.success /\ rb.source = "FALLBACK")

\* C2: with use_fallback false, a rejected text and a generation error both
\* end in success=false, recipe null and a non-null error (the exception's
\* message in the error case), and get_recipe_by_keywords is never called.
C2_NoFallbackWhenDisabled ==
  (rb.called /\ ~rb.use_fallback /\ (rb.genRaised \/ (rb.validatorRan /\ ~rb.valid)))
    => /\ rb.kind = "return"
       /\ ~rb.outcome.success
       /\ rb.outcome.recipe = None
       /\ rb.outcome.error # None
       /\ (rb.genRaised => rb.outcome.error = Some(rb.genMsg))
       /\ rb.fallbackArgs = << >>

\* A text of at least 100 characters was rejected with fallback disabled.
C2_Witness ==
  /\ rb.called /\ ~rb.use_fallback /\ rb.validatorRan /\ ~rb.valid
  /\ Len(rb.recipe_text[1]) >= MinRecipeLen
  /\ rb.outcome.error = Some("Generated invalid recipe")

\* C3: every outcome generate_recipe builds itself has recipe set and error
\* null when success is true, and exactly one of recipe and error set when
\* success is false.
C3_OutcomeShape ==
  (rb.called /\ rb.kind = "return" /\ rb.selfBuilt)
    => /\ rb.outcome.success => (rb.outcome.recipe # None /\ rb.outcome.error = None)
       /\ ~rb.outcome.success => ((rb.outcome.recipe # None) # (rb.outcome.error # None))

\* generate_recipe accepted a generated text and built the outcome itself.
C3_Witness ==
  /\ rb.called /\ rb.kind = "return" /\ rb.selfBuilt
  /\ rb.outcome.success /\ rb.source = "GENERATED"

\* C4: a blank name or ingredient string is rejected before the core is
\* called and answered with status 400.
C4_BlankInputIsClientError ==
  (http.endpoint # "none" /\ IsBlank(http.input))
    => (~http.coreCalled /\ http.status = HTTP_BAD_REQUEST)

\* C5: in a successful get-recipe response generated_by has one value for a
\* recipe the model generated and another for a recipe of the fallback source.
C5_GeneratedByDistinguishes ==
  (http.endpoint = "get-recipe" /\ http.status = HTTP_OK)
    => /\ rb.source = "GENERATED" => http.generated_by = GeneratedBy
       /\ rb.source = "FALLBACK" => http.generated_by # GeneratedBy

NonIncreasing(ms) == \A i \in 1..(Len(ms) - 1) : ms[i].score >= ms[i + 1].score

C7_AlwaysBestMatch ==
  nm.called
    => /\ nm.exc # "list index out of range"
       /\ nm.kind = "return"
            => /\ nm.best_match.name = nm.all_matches[1].name
               /\ nm.best_match.score = nm.all_matches[1].score

\* The validator as the design states it.
SpecValid(text) ==
  /\ Len(text) >= 100
  /\ \/ Contains(KwIngredient, Lower(text))
     \/ Contains(KwInstruction, Lower(text))
  /\ Cardinality({i \in 1..Len(cooking_words) :
                    Contains(cooking_words[i], Lower(text))}) >= 2

\* C8: _is_valid_recipe(text) is true exactly when text has at least 100
\* characters, mentions "ingredient" or "instruction" in any case, and
\* contains at least 2 distinct cooking keywords.
C8_ValidatorIff ==
  rb.validatorRan => (rb.valid <=> SpecValid(rb.recipe_text[1]))

\* A text of exactly 100 characters was accepted.
C8_Witness ==
  /\ rb.validatorRan /\ rb.valid
  /\ Len(rb.recipe_text[1]) = MinRecipeLen

\* C9: every returned match has score, semantic_score and fuzzy_score
\* within [0, 1].
C9_ScoresInUnitInterval ==
  (nm.called /\ nm.kind = "return")
    => \A i \in 1..Len(nm.all_matches) :
         /\ nm.all_matches[i].score \in 0..1000
         /\ nm.all_matches[i].semantic_score \in 0..1000
         /\ nm.all_matches[i].fuzzy_score \in 0..1000

\* 10000 * |score - (0.6 * semantic_score + 0.4 * fuzzy_score)|
Discrepancy(m) ==
  Abs(10 * m.score - (SemWeight * m.semantic_score + FuzzyWeight * m.fuzzy_score))

\* C10: for every returned match the reported score is within 0.001 of
\* 0.6 * reported semantic_score + 0.4 * reported fuzzy_score.
C10_WeightedSumWithinRounding ==
  (nm.called /\ nm.kind = "return")
    => \A i \in 1..Len(nm.all_matches) : Discrepancy(nm.all_matches[i]) < 10

\* Independent rounding shows: the reported score differs from the weighted
\* sum of the reported parts by more than half a unit of the third decimal.
C10_Witness ==
  /\ nm.called /\ nm.kind = "return"
  /\ \E i \in 1..Len(nm.all_matches) : Discrepancy(nm.all_matches[i]) > 5

\* C11: when the text is rejected and use_fallback is true, the Fallback
\* Recipe Source is queried with the canonical ingredient string, and what it
\* returns is the outcome of generate_recipe.
C11_FallbackGetsCanonical ==
  (rb.called /\ rb.validatorRan /\ ~rb.valid /\ rb.use_fallback)
    => /\ Len(rb.fallbackArgs) >= 1
       /\ rb.fallbackArgs[1] = rb.ingredients_text
       /\ (Len(rb.fallbackArgs) = 1 /\ rb.kind = "return")
            => (rb.source = "FALLBACK" /\ rb.outcome.recipe = Some(CannedRecipe))

\* C12: within one generate_recipe call the generation step runs at most
\* once and get_recipe_by_keywords is called at most once, on every path.
C12_AtMostOneFallbackCall ==
  rb.called => (rb.genCalls <= 1 /\ Len(rb.fallbackArgs) <= 1)

\* C13: generate_recipe returns the GENERATED outcome (success, recipe equal
\* to the parsed text) exactly when generation did not raise and the
\* validator accepted the parsed text.
C13_AcceptedIffValidated ==
  rb.called
    => /\ (rb.kind = "return" /\ rb.outcome.success /\ rb.source = "GENERATED")
            <=> (~rb.genRaised /\ rb.validatorRan /\ rb.valid)
       /\ rb.source = "GENERATED"
            => /\ rb.outcome.recipe = rb.recipe_text
               /\ IsValidRecipe(rb.outcome.recipe[1])

\* A generated text was accepted and returned.
C13_Witness ==
  /\ rb.called /\ rb.kind = "return" /\ rb.source = "GENERATED"
  /\ rb.validatorRan /\ rb.valid
  /\ rb.outcome.recipe = rb.recipe_text

\* The catalog position of a returned name (catalog names are distinct).
IndexOf(name) == CHOOSE i \in 1..Len(names) : names[i] = name

KeptIndices == {IndexOf(nm.all_matches[i].name) : i \in 1..Len(nm.all_matches)}

CountChar(s, c) == Cardinality({i \in 1..Len(s) : s[i] = c})

NotSpace(c) == ~IsSpace(c)

EggOnions == <<"e", "g", "g", ",", " ", "o", "n", "i", "o", "n", "s">>

\* C15: the canonical ingredient string is the input split on every comma,
\* each token trimmed, rejoined with ", " in order, empty tokens kept;
\* "egg, onions" maps to itself and canonicalising is idempotent.
C15_CanonicalString ==
  rb.called
    => LET raw == rb.ingredients
           c == rb.ingredients_text
       IN /\ CountChar(c, ",") = CountChar(raw, ",")
          /\ SelectSeq(c, NotSpace) = SelectSeq(raw, NotSpace)
          /\ \A i \in 1..Len(c) :
               /\ c[i] = "," => (i < Len(c) /\ c[i + 1] = " ")
               /\ IsSpace(c[i]) => (i > 1 /\ c[i - 1] = ",")
          /\ Canonical(c) = c
          /\ raw = EggOnions => c = EggOnions

\* "egg,,onion" became "egg, , onion".
C15_Witness ==
  /\ rb.called
  /\ rb.ingredients = <<"e", "g", "g", ",", ",", "o", "n", "i", "o", "n">>
  /\ rb.ingredients_text
       = <<"e", "g", "g", ",", " ", ",", " ", "o", "n", "i", "o", "n">>

\* Everything after the first occurrence of the delimiter, or the whole text.
AfterFirst(full_response) ==
  LET i == Find(full_response, INST_CLOSE)
  IN IF i = 0 THEN full_response
     ELSE SubSeq(full_response, i + Len(INST_CLOSE), Len(full_response))

\* C16 as stated: the text passed to the validator is everything after the
\* first "[/INST]" of the decoded text, or the entire decoded text.
C16_AfterFirstDelimiter ==
  rb.validatorRan => rb.recipe_text[1] = AfterFirst(rb.full_response)

\* C16 amended: the text passed to the validator is everything after the
\* first "[/INST]" (or the entire decoded text) with the surrounding
\* whitespace stripped.
C16_AfterFirstDelimiterStripped ==
  rb.validatorRan => rb.recipe_text[1] = Strip(AfterFirst(rb.full_response))

\* A later occurrence of the delimiter stayed inside the candidate text.
C16_Witness ==
  /\ rb.validatorRan
  /\ Contains(INST_CLOSE, rb.recipe_text[1])

\* What construction leaves behind: one adapter attempt, at most one base
\* load, a model and a tokenizer on every constructed bot, no bot otherwise.
C17_State ==
  /\ bot.adapterAttempts <= 1 /\ bot.baseLoads <= 1
  /\ bot.state # "none" => bot.adapterAttempts = 1
  /\ bot.model = "lora" /\ bot.state = "ready" => bot.baseLoads = 0
  /\ bot.state = "failed" => bot.baseLoads = 1
  /\ bot.state = "ready"
       => /\ bot.model \in {"lora", "base"}
          /\ bot.tokenizer \in {"adapter", "base"}
          /\ bot.model = "base" <=> bot.baseLoads = 1
          /\ bot.model = "base" => bot.tokenizer = "base"
  /\ (rb.called \/ pc \in {"idle", "done"}) => bot.state = "ready"
  /\ bot.state = "failed" => (pc = "down" /\ ~rb.called)

\* While the process lives a constructed bot is not touched, and no
\* generate_recipe call touches it.
C17_Step ==
  /\ (bot.state = "ready" /\ pc' # "down") => bot' = bot
  /\ rb' # rb => bot' = bot

\* C17: construction tries the adapter model once; on any exception of that
\* attempt it loads the base model exactly once; if that fails too no
\* RecipeBot exists; a constructed bot has a model and a tokenizer, and no
\* generate_recipe call reloads or reassigns them.
C17_LoadOnceThenFixed == []C17_State /\ [][C17_Step]_vars

\* A degraded bot answered a generate_recipe call.
C17_Witness ==
  /\ rb.called /\ bot.state = "ready"
  /\ bot.model = "base" /\ bot.baseLoads = 1 /\ bot.adapterAttempts = 1

\* Every load so far returned the first load's list, which is the stored one.
C18_State ==
  /\ disk.writes <= 1
  /\ disk.writes = 1 => disk.doc = Some(Dump(DefaultNames))
  /\ \A i \in 1..Len(disk.returned) :
       /\ disk.returned[i] = disk.returned[1]
       /\ disk.doc = Some(Dump(disk.returned[i]))
  /\ pc \in {"booting", "idle", "done"}
       => (Len(disk.returned) >= 1 /\ names = disk.returned[1])

\* A present document stays as it is; an absent one becomes the built-in list.
C18_Step ==
  /\ disk.doc # None => (disk'.doc = disk.doc /\ disk'.writes = disk.writes)
  /\ disk'.doc # disk.doc
       => (disk.doc = None /\ disk'.doc = Some(Dump(DefaultNames)))

\* C18: the names document is written only by a load that finds it absent,
\* and then with the built-in list; a present document is never rewritten,
\* and every load returns what the first load returned, in the same order.
C18_BootstrapOnce == []C18_State /\ [][C18_Step]_vars

\* A later construction read back the list an earlier one had written.
C18_Witness ==
  /\ disk.writes = 1
  /\ Len(disk.returned) >= 2
  /\ pc = "idle" /\ names = DefaultNames

====
